---- MODULE Spec2Model ----
(***************************************************************************)
(* Process-lifecycle model of enhance-cpu-memory (src/src/main.rs), unix   *)
(* build: the PID file, the start / stop command paths of main, and the    *)
(* threads of start_load (ctrl-c handler thread, workers, status thread).  *)
(*                                                                         *)
(* Library behaviour the source relies on:                                 *)
(*  - ctrlc::set_handler installs an OS signal handler and spawns a thread *)
(*    that waits for the signal and then runs the closure;                 *)
(*  - fork::daemon forks: the child image holds a copy of the memory of    *)
(*    the caller (flag, buffers, signal dispositions) but only the calling *)
(*    thread, so none of the threads spawned before the fork exist in it;  *)
(*  - a signal that reaches a process without an installed handler has    *)
(*    its default disposition: the process is terminated at once;          *)
(*  - the signal `kill <pid>` sends is one the ctrlc handler is installed  *)
(*    for, like the interrupt signal of Ctrl-C.                            *)
(* fork::daemon's parent side (the caller, which leaves through exit(0))   *)
(* is one process of the model, its child side another.                    *)
(* The status command reads and writes none of the state below and is not  *)
(* modelled.  Spec is one start invocation with any arguments; SpecMulti   *)
(* is several start and stop invocations; FairSpec is Spec under fair      *)
(* scheduling of every thread.                                             *)
(***************************************************************************)
EXTENDS Integers, Sequences, FiniteSets, TLC

\* ------------------------------------------------------------------ bounds
MaxProcs == 3        \* process identifiers available to launches and forks
FirstPid == 9        \* smallest process identifier (9, 10, ... : 1 and 2 digits)
MaxCpus == 2         \* largest num_cpus::get() considered
MaxCores == 3        \* largest --cores value considered
MaxSignals == 2      \* interrupt signals the operator sends (Ctrl-C)
MaxSignalsMulti == 1 \* the same, when several invocations run
U32MaxDiv10 == 429496729   \* u32::MAX = 4294967295 = U32MaxDiv10 * 10 + U32MaxMod10
U32MaxMod10 == 5

Pids == FirstPid..(FirstPid + MaxProcs - 1)
None == -1           \* Option::None of read_pid, outside the u32 range

VARIABLES
    pid_file,        \* the file get_pid_file() names
    num_cpus,        \* num_cpus::get()
    next_pid,        \* next process identifier the system hands out
    signals,         \* interrupt signals sent by the operator so far
    proc             \* per process: position, arguments, locals, threads

vars == <<pid_file, num_cpus, next_pid, signals, proc>>

\* ------------------------------------------------------------ text helpers
DigitChars == <<"0", "1", "2", "3", "4", "5", "6", "7", "8", "9">>
Digits == {DigitChars[i] : i \in 1..10}
Whitespace == {" ", "\n"}

DigitVal(c) == (CHOOSE i \in 1..10 : DigitChars[i] = c) - 1

\* decimal digits written least significant first
RECURSIVE to_string_reversed(_)
to_string_reversed(n) ==
    IF n < 10 THEN <<DigitChars[n + 1]>>
    ELSE <<DigitChars[(n % 10) + 1]>> \o to_string_reversed(n \div 10)

\* u32::to_string: decimal digits, most significant first, no padding
RECURSIVE to_string(_)
to_string(n) ==
    IF n < 10 THEN <<DigitChars[n + 1]>>
    ELSE to_string(n \div 10) \o <<DigitChars[(n % 10) + 1]>>

\* str::trim: strip leading and trailing whitespace
RECURSIVE trim_start(_)
trim_start(s) ==
    IF s # <<>> /\ Head(s) \in Whitespace THEN trim_start(Tail(s)) ELSE s

RECURSIVE trim_end(_)
trim_end(s) ==
    IF s # <<>> /\ s[Len(s)] \in Whitespace
    THEN trim_end(SubSeq(s, 1, Len(s) - 1)) ELSE s

trim(s) == trim_end(trim_start(s))

\* value of a digit string, None as soon as it leaves the u32 range
RECURSIVE digits_value(_, _)
digits_value(s, acc) ==
    IF s = <<>> THEN acc
    ELSE LET d == DigitVal(Head(s))
         IN  IF acc > U32MaxDiv10 \/ (acc = U32MaxDiv10 /\ d > U32MaxMod10)
             THEN None
             ELSE digits_value(Tail(s), acc * 10 + d)

\* str::parse::<u32>().ok(): optional '+', then one or more digits, in range
parse_u32(s) ==
    LET body == IF s # <<>> /\ Head(s) = "+" THEN Tail(s) ELSE s
    IN  IF body = <<>> \/ \E i \in 1..Len(body) : body[i] \notin Digits
        THEN None
        ELSE digits_value(body, 0)

\* ---------------------------------------------------------------- PID file
NoFile == [exists |-> FALSE, readable |-> TRUE, content |-> <<>>]

\* files that may be left at the path before any modelled process starts
InitFiles ==
    { NoFile,
      [exists |-> TRUE, readable |-> FALSE, content |-> <<"x">>],
      [exists |-> TRUE, readable |-> TRUE, content |-> <<"1", "x">>],
      [exists |-> TRUE, readable |-> TRUE, content |-> <<"7", "\n">>] }

\* further files a start can find: a signed number, a number past u32::MAX
MoreFiles ==
    { [exists |-> TRUE, readable |-> TRUE, content |-> <<"+", "7">>],
      [exists |-> TRUE, readable |-> TRUE, content |-> <<"-", "7">>],
      [exists |-> TRUE, readable |-> TRUE,
       content |-> <<"4", "2", "9", "4", "9", "6", "7", "2", "9", "6">>] }

\* read_pid: None when absent, when open/read fails, when the text does not parse
read_pid(f) ==
    IF ~f.exists THEN None
    ELSE IF ~f.readable THEN None
    ELSE parse_u32(trim(f.content))

\* save_pid run by process p; io is the outcome of the two fallible calls:
\* "ok", "create_err" (File::create fails, file untouched) or
\* "write_err" (created/truncated, write_all fails)
save_pid_outcomes(f) ==
    IF f.exists /\ ~f.readable THEN {"create_err"}
    ELSE {"ok", "create_err", "write_err"}

\* a save that does not replace a file already at the path (create_new)
save_pid_create_new(f, p, io) ==
    CASE io = "ok" /\ ~f.exists ->
             [exists |-> TRUE, readable |-> TRUE, content |-> to_string(p)]
      [] io = "write_err" /\ ~f.exists ->
             [exists |-> TRUE, readable |-> TRUE, content |-> <<>>]
      [] OTHER -> f

save_pid(f, p, io) ==
    CASE io = "ok" -> [exists |-> TRUE, readable |-> TRUE, content |-> to_string(p)]
      [] io = "write_err" -> [exists |-> TRUE, readable |-> TRUE, content |-> <<>>]
      [] OTHER -> f

\* a removal that empties the file and leaves it in place
remove_pid_file_truncates(f) == IF f.exists THEN [f EXCEPT !.content = <<>>] ELSE f

\* remove_pid_file: remove the file when it exists
remove_pid_file(f) == IF f.exists THEN NoFile ELSE f

\* ------------------------------------------------------------- processes
NoProc ==
    [ pc |-> "none", cmd |-> "none", cores |-> 0, memory |-> "none",
      background |-> FALSE, parent |-> None,
      pid |-> None,              \* the `pid` bound by `if let Some(pid) = read_pid()`
      saved |-> "none",          \* result of this process's latest save_pid
      out |-> "none",            \* last message printed for the operator
      running |-> FALSE,         \* the AtomicBool `running`
      os_handler |-> FALSE,      \* OS signal handler installed by ctrlc
      ctrl_c |-> "none",         \* ctrlc's handler thread
      pending |-> 0,             \* signals waiting for the handler thread
      signalled |-> FALSE,       \* a shutdown signal reached this process
      handled |-> 0,             \* runs of the handler closure
      actual_cores |-> 0, memory_vec |-> FALSE,
      handles |-> 0,             \* worker threads spawned
      returned |-> 0,            \* worker threads that returned
      panics |-> 0,              \* worker threads that ended by a panic
      late_samples |-> 0,        \* status samples printed with the flag false
      status_thread |-> "none" ]

Alive(p) == proc[p].pc \notin {"none", "done", "exited", "panicked", "killed"}

Min(a, b) == IF a < b THEN a ELSE b

Init ==
    /\ pid_file \in InitFiles
    /\ num_cpus \in 1..MaxCpus
    /\ next_pid = FirstPid
    /\ signals = 0
    /\ proc = [p \in Pids |-> NoProc]

\* ----------------------------------------------------------- command line
\* `start` (or bare flags) with --cores c, --memory m, --background b
LaunchStart(c, m, b) ==
    /\ next_pid \in Pids
    /\ proc' = [proc EXCEPT ![next_pid] =
                   [NoProc EXCEPT !.pc = "read", !.cmd = "start", !.cores = c,
                                  !.memory = m, !.background = b]]
    /\ next_pid' = next_pid + 1
    /\ UNCHANGED <<pid_file, num_cpus, signals>>

\* `stop`
LaunchStop ==
    /\ next_pid \in Pids
    /\ proc' = [proc EXCEPT ![next_pid] =
                   [NoProc EXCEPT !.pc = "stop_read", !.cmd = "stop"]]
    /\ next_pid' = next_pid + 1
    /\ UNCHANGED <<pid_file, num_cpus, signals>>

\* ------------------------------------------------------------- main: start
\* MainReadPid without the `return` after the conflict message
MainReadPid_no_return(p) ==
    /\ proc[p].pc = "read"
    /\ LET v == read_pid(pid_file)
       IN  proc' = [proc EXCEPT ![p] =
                      IF v # None
                      THEN [@ EXCEPT !.pid = v, !.out = "conflict", !.pc = "save"]
                      ELSE [@ EXCEPT !.pc = "save"]]
    /\ UNCHANGED <<pid_file, num_cpus, next_pid, signals>>

\* `if let Some(pid) = read_pid() { println!(..pid..); return; }`
MainReadPid(p) ==
    /\ proc[p].pc = "read"
    /\ LET v == read_pid(pid_file)
       IN  proc' = [proc EXCEPT ![p] =
                      IF v # None
                      THEN [@ EXCEPT !.pid = v, !.out = "conflict", !.pc = "done"]
                      ELSE [@ EXCEPT !.pc = "save"]]
    /\ UNCHANGED <<pid_file, num_cpus, next_pid, signals>>

\* MainSavePid that gives up when save_pid fails
MainSavePid_fatal(p) ==
    /\ proc[p].pc = "save"
    /\ \E io \in save_pid_outcomes(pid_file) :
         /\ pid_file' = save_pid(pid_file, p, io)
         /\ proc' = [proc EXCEPT ![p] =
                        [@ EXCEPT !.saved = IF io = "ok" THEN "ok" ELSE "err",
                                  !.pc = IF io = "ok" THEN "set_handler" ELSE "done"]]
    /\ UNCHANGED <<num_cpus, next_pid, signals>>

\* `if let Err(e) = save_pid() { println!(warning) }`, then start_load is called
MainSavePid(p) ==
    /\ proc[p].pc = "save"
    /\ \E io \in save_pid_outcomes(pid_file) :
         /\ pid_file' = save_pid(pid_file, p, io)
         /\ proc' = [proc EXCEPT ![p] =
                        [@ EXCEPT !.saved = IF io = "ok" THEN "ok" ELSE "err",
                                  !.pc = "set_handler"]]
    /\ UNCHANGED <<num_cpus, next_pid, signals>>

\* start_load: the flag is created true; ctrlc::set_handler(..).expect(..)
SetHandler(p) ==
    /\ proc[p].pc = "set_handler"
    /\ \/ proc' = [proc EXCEPT ![p] =
                      [@ EXCEPT !.running = TRUE, !.os_handler = TRUE,
                                !.ctrl_c = "wait", !.pc = "alloc"]]
       \/ proc' = [proc EXCEPT ![p] =
                      [@ EXCEPT !.running = TRUE, !.pc = "panicked"]]
    /\ UNCHANGED <<pid_file, num_cpus, next_pid, signals>>

\* actual_cores without the clamp to the logical core count
actual_cores_unclamped(num_cores, cpus) == num_cores

\* `num_cores.min(num_cpus::get())`
actual_cores(num_cores, cpus) == Min(num_cores, cpus)

\* memory_vec is Some exactly when --memory was given and ByteSize parsed it
memory_vec(memory_size) == memory_size = "ok"

\* start_load: actual_cores, then parse --memory and allocate
AllocMemory(p) ==
    /\ proc[p].pc = "alloc"
    /\ proc' = [proc EXCEPT ![p] =
                   [@ EXCEPT !.actual_cores = actual_cores(proc[p].cores, num_cpus),
                             !.memory_vec = memory_vec(proc[p].memory),
                             !.out = IF proc[p].memory = "bad" THEN "memory_warning" ELSE @,
                             !.pc = IF proc[p].background THEN "daemon" ELSE "spawn"]]
    /\ UNCHANGED <<pid_file, num_cpus, next_pid, signals>>

\* the process image fork::daemon returns Fork::Child in: a copy of the caller
\* that has the calling thread only
fork_child(parent_rec, p) ==
    [parent_rec EXCEPT !.pc = "fork_child", !.parent = p, !.ctrl_c = "none",
                       !.pending = 0, !.signalled = FALSE, !.handled = 0,
                       !.saved = "none"]

\* `match fork::daemon(false, false)`
Daemon(p) ==
    /\ proc[p].pc = "daemon"
    /\ \/ /\ next_pid \in Pids
          /\ proc' = [proc EXCEPT ![p] = [@ EXCEPT !.pc = "fork_parent"],
                                  ![next_pid] = fork_child(proc[p], p)]
          /\ next_pid' = next_pid + 1
       \/ /\ proc' = [proc EXCEPT ![p] = [@ EXCEPT !.pc = "fork_err"]]
          /\ UNCHANGED next_pid
    /\ UNCHANGED <<pid_file, num_cpus, signals>>

\* Ok(Fork::Parent(pid)): println!, std::process::exit(0)
ForkParent(p) ==
    /\ proc[p].pc = "fork_parent"
    /\ proc' = [proc EXCEPT ![p] = [@ EXCEPT !.out = "parent_exit", !.pc = "exited"]]
    /\ UNCHANGED <<pid_file, num_cpus, next_pid, signals>>

\* Ok(Fork::Child): save_pid again, a failure is only reported
ForkChild(p) ==
    /\ proc[p].pc = "fork_child"
    /\ \E io \in save_pid_outcomes(pid_file) :
         /\ pid_file' = save_pid(pid_file, p, io)
         /\ proc' = [proc EXCEPT ![p] =
                        [@ EXCEPT !.saved = IF io = "ok" THEN "ok" ELSE "err",
                                  !.pc = "spawn"]]
    /\ UNCHANGED <<num_cpus, next_pid, signals>>

\* ForkErr without the `return`: falls through to the worker spawn
ForkErr_no_return(p) ==
    /\ proc[p].pc = "fork_err"
    /\ pid_file' = remove_pid_file(pid_file)
    /\ proc' = [proc EXCEPT ![p] = [@ EXCEPT !.out = "fork_error", !.pc = "spawn"]]
    /\ UNCHANGED <<num_cpus, next_pid, signals>>

\* Err(_): println!, remove_pid_file, return
ForkErr(p) ==
    /\ proc[p].pc = "fork_err"
    /\ pid_file' = remove_pid_file(pid_file)
    /\ proc' = [proc EXCEPT ![p] = [@ EXCEPT !.out = "fork_error", !.pc = "done"]]
    /\ UNCHANGED <<num_cpus, next_pid, signals>>

\* number of worker threads `(0..actual_cores).map(thread::spawn)` creates
worker_count(cores) == cores

\* one thread::spawn of the worker loop
SpawnWorker(p) ==
    /\ proc[p].pc = "spawn"
    /\ proc[p].handles < worker_count(proc[p].actual_cores)
    /\ proc' = [proc EXCEPT ![p] = [@ EXCEPT !.handles = @ + 1]]
    /\ UNCHANGED <<pid_file, num_cpus, next_pid, signals>>

\* `.collect()` is complete; the status thread is spawned
SpawnStatus(p) ==
    /\ proc[p].pc = "spawn"
    /\ proc[p].handles >= worker_count(proc[p].actual_cores)
    /\ proc' = [proc EXCEPT ![p] = [@ EXCEPT !.status_thread = "check", !.pc = "join"]]
    /\ UNCHANGED <<pid_file, num_cpus, next_pid, signals>>

\* a join that unwraps the result of a worker
Join_unwrap(p) ==
    /\ proc[p].pc = "join"
    /\ proc[p].returned + proc[p].panics = proc[p].handles
    /\ proc[p].status_thread = "done"
    /\ proc' = [proc EXCEPT ![p] =
                   [@ EXCEPT !.pc = IF proc[p].panics > 0 THEN "panicked"
                                    ELSE "final_clear"]]
    /\ UNCHANGED <<pid_file, num_cpus, next_pid, signals>>

\* `for handle in handles { let _ = handle.join(); }; let _ = status_thread.join();`
\* join returns for a thread that returned and for one that panicked
Join(p) ==
    /\ proc[p].pc = "join"
    /\ proc[p].returned + proc[p].panics = proc[p].handles
    /\ proc[p].status_thread = "done"
    /\ proc' = [proc EXCEPT ![p] = [@ EXCEPT !.pc = "final_clear"]]
    /\ UNCHANGED <<pid_file, num_cpus, next_pid, signals>>

\* drop(memory_vec); remove_pid_file(); start_load and main return
FinalClear(p) ==
    /\ proc[p].pc = "final_clear"
    /\ pid_file' = remove_pid_file(pid_file)
    /\ proc' = [proc EXCEPT ![p] = [@ EXCEPT !.memory_vec = FALSE, !.pc = "done"]]
    /\ UNCHANGED <<num_cpus, next_pid, signals>>

\* ---------------------------------------------------------------- threads
\* a worker loop that never looks at the flag
Worker_ignores_flag(p) ==
    /\ Alive(p)
    /\ proc[p].returned + proc[p].panics < proc[p].handles
    /\ UNCHANGED vars

\* cpu_intensive_task: `while running.load(SeqCst) { .. }`; one load by one worker
Worker(p) ==
    /\ Alive(p)
    /\ proc[p].returned + proc[p].panics < proc[p].handles
    /\ IF proc[p].running
       THEN UNCHANGED proc
       ELSE proc' = [proc EXCEPT ![p] = [@ EXCEPT !.returned = @ + 1]]
    /\ UNCHANGED <<pid_file, num_cpus, next_pid, signals>>

\* a worker thread ends by a panic (its println! fails) instead of returning
WorkerPanic(p) ==
    /\ Alive(p)
    /\ proc[p].returned + proc[p].panics < proc[p].handles
    /\ proc' = [proc EXCEPT ![p] = [@ EXCEPT !.panics = @ + 1]]
    /\ UNCHANGED <<pid_file, num_cpus, next_pid, signals>>

\* status thread: `while running.load(SeqCst)`
StatusCheck(p) ==
    /\ Alive(p)
    /\ proc[p].status_thread = "check"
    /\ proc' = [proc EXCEPT ![p] =
                   [@ EXCEPT !.status_thread = IF proc[p].running THEN "sample" ELSE "done"]]
    /\ UNCHANGED <<pid_file, num_cpus, next_pid, signals>>

\* status thread: refresh, compute the average, print the status lines
StatusSample(p) ==
    /\ Alive(p)
    /\ proc[p].status_thread = "sample"
    /\ proc' = [proc EXCEPT ![p] =
                   [@ EXCEPT !.status_thread = "sleep",
                             !.late_samples = IF proc[p].running THEN @ ELSE @ + 1]]
    /\ UNCHANGED <<pid_file, num_cpus, next_pid, signals>>

\* a status thread that samples again after the sleep without a load
StatusSleep_resamples(p) ==
    /\ Alive(p)
    /\ proc[p].status_thread = "sleep"
    /\ proc' = [proc EXCEPT ![p] = [@ EXCEPT !.status_thread = "sample"]]
    /\ UNCHANGED <<pid_file, num_cpus, next_pid, signals>>

\* status thread: thread::sleep(2s) is over
StatusSleep(p) ==
    /\ Alive(p)
    /\ proc[p].status_thread = "sleep"
    /\ proc' = [proc EXCEPT ![p] = [@ EXCEPT !.status_thread = "check"]]
    /\ UNCHANGED <<pid_file, num_cpus, next_pid, signals>>

\* a handler that flips the flag instead of storing false
HandlerStore_toggles(p) ==
    /\ Alive(p)
    /\ proc[p].ctrl_c = "wait"
    /\ proc[p].pending > 0
    /\ proc' = [proc EXCEPT ![p] =
                   [@ EXCEPT !.pending = @ - 1, !.running = ~proc[p].running,
                             !.handled = @ + 1, !.ctrl_c = "clear"]]
    /\ UNCHANGED <<pid_file, num_cpus, next_pid, signals>>

\* handler closure, first statement: r.store(false, SeqCst)
HandlerStore(p) ==
    /\ Alive(p)
    /\ proc[p].ctrl_c = "wait"
    /\ proc[p].pending > 0
    /\ proc' = [proc EXCEPT ![p] =
                   [@ EXCEPT !.pending = @ - 1, !.running = FALSE,
                             !.handled = @ + 1, !.ctrl_c = "clear"]]
    /\ UNCHANGED <<pid_file, num_cpus, next_pid, signals>>

\* handler closure, rest: println!, remove_pid_file()
HandlerClear(p) ==
    /\ Alive(p)
    /\ proc[p].ctrl_c = "clear"
    /\ pid_file' = remove_pid_file(pid_file)
    /\ proc' = [proc EXCEPT ![p] = [@ EXCEPT !.ctrl_c = "wait"]]
    /\ UNCHANGED <<num_cpus, next_pid, signals>>

\* ---------------------------------------------------------------- signals
\* the shutdown signal sent to identifier q: nothing when no such process
\* runs; default disposition (termination) without an installed handler;
\* otherwise it is queued for the handler thread, if the process has one
deliver(pr, q) ==
    IF q \notin Pids \/ pr[q].pc \in {"none", "done", "exited", "panicked", "killed"}
    THEN pr
    ELSE IF ~pr[q].os_handler
    THEN [pr EXCEPT ![q] = [@ EXCEPT !.pc = "killed"]]
    ELSE IF pr[q].ctrl_c # "none"
    THEN [pr EXCEPT ![q] = [@ EXCEPT !.pending = @ + 1, !.signalled = TRUE]]
    ELSE [pr EXCEPT ![q] = [@ EXCEPT !.signalled = TRUE]]

\* the operator interrupts a start process (Ctrl-C, or a signal sent by hand)
Signal(p, limit) ==
    /\ signals < limit
    /\ Alive(p)
    /\ proc[p].cmd = "start"
    /\ proc' = deliver(proc, p)
    /\ signals' = signals + 1
    /\ UNCHANGED <<pid_file, num_cpus, next_pid>>

\* -------------------------------------------------------------- main: stop
\* StopRead that removes an unusable file when it finds no entry
StopRead_cleans(p) ==
    /\ proc[p].pc = "stop_read"
    /\ LET v == read_pid(pid_file)
       IN  /\ proc' = [proc EXCEPT ![p] =
                         IF v # None
                         THEN [@ EXCEPT !.pid = v, !.out = "stopping", !.pc = "stop_kill"]
                         ELSE [@ EXCEPT !.out = "no_instance", !.pc = "done"]]
           /\ pid_file' = IF v # None THEN pid_file ELSE remove_pid_file(pid_file)
    /\ UNCHANGED <<num_cpus, next_pid, signals>>

\* `if let Some(pid) = read_pid() {..} else { println!(no instance) }`
StopRead(p) ==
    /\ proc[p].pc = "stop_read"
    /\ LET v == read_pid(pid_file)
       IN  proc' = [proc EXCEPT ![p] =
                      IF v # None
                      THEN [@ EXCEPT !.pid = v, !.out = "stopping", !.pc = "stop_kill"]
                      ELSE [@ EXCEPT !.out = "no_instance", !.pc = "done"]]
    /\ UNCHANGED <<pid_file, num_cpus, next_pid, signals>>

\* `Command::new("kill").arg(pid.to_string()).status()`, result ignored
StopKill(p) ==
    /\ proc[p].pc = "stop_kill"
    /\ proc' = [deliver(proc, proc[p].pid) EXCEPT ![p] = [@ EXCEPT !.pc = "stop_clear"]]
    /\ UNCHANGED <<pid_file, num_cpus, next_pid, signals>>

\* StopClear that removes the file only once the signalled process is gone
StopClear_waits(p) ==
    /\ proc[p].pc = "stop_clear"
    /\ pid_file' = IF proc[p].pid \in Pids /\ Alive(proc[p].pid)
                   THEN pid_file ELSE remove_pid_file(pid_file)
    /\ proc' = [proc EXCEPT ![p] = [@ EXCEPT !.out = "stopped", !.pc = "done"]]
    /\ UNCHANGED <<num_cpus, next_pid, signals>>

\* `let _ = remove_pid_file(); println!(stopped)`
StopClear(p) ==
    /\ proc[p].pc = "stop_clear"
    /\ pid_file' = remove_pid_file(pid_file)
    /\ proc' = [proc EXCEPT ![p] = [@ EXCEPT !.out = "stopped", !.pc = "done"]]
    /\ UNCHANGED <<num_cpus, next_pid, signals>>

\* ---------------------------------------------------------- specification
MemoryArgs == {"none", "ok", "bad"}

\* the steps of a process that runs `start`, and of its threads
StartStep(p) ==
    \/ MainReadPid(p) \/ MainSavePid(p) \/ SetHandler(p) \/ AllocMemory(p)
    \/ Daemon(p) \/ ForkParent(p) \/ ForkChild(p) \/ ForkErr(p)
    \/ SpawnWorker(p) \/ SpawnStatus(p) \/ Join(p) \/ FinalClear(p)
    \/ Worker(p) \/ StatusCheck(p) \/ StatusSample(p) \/ StatusSleep(p)
    \/ HandlerStore(p) \/ HandlerClear(p)

\* the steps of a process that runs `stop`
StopStep(p) == StopRead(p) \/ StopKill(p) \/ StopClear(p)

\* one `start` invocation with any arguments, and the signals sent to it
Next ==
    \/ /\ next_pid = FirstPid
       /\ \E c \in 0..MaxCores, m \in MemoryArgs, b \in BOOLEAN : LaunchStart(c, m, b)
    \/ \E p \in Pids : StartStep(p) \/ Signal(p, MaxSignals)

Spec == Init /\ [][Next]_vars

\* one `start` invocation, with more kinds of file found at the path
InitRegistry ==
    /\ pid_file \in InitFiles \cup MoreFiles
    /\ num_cpus \in 1..MaxCpus
    /\ next_pid = FirstPid
    /\ signals = 0
    /\ proc = [p \in Pids |-> NoProc]

SpecRegistry == InitRegistry /\ [][Next]_vars

\* one `start` invocation whose worker threads may panic
NextPanic ==
    \/ Next
    \/ \E p \in Pids : WorkerPanic(p)

SpecPanic == Init /\ [][NextPanic]_vars

\* several invocations, `start` (one core, no memory) and `stop`, in any order
InitMulti == Init /\ num_cpus = MaxCpus

NextMulti ==
    \/ \E b \in BOOLEAN : LaunchStart(1, "none", b)
    \/ LaunchStop
    \/ \E p \in Pids : StartStep(p) \/ StopStep(p) \/ Signal(p, MaxSignalsMulti)

SpecMulti == InitMulti /\ [][NextMulti]_vars

\* one `start` invocation under fair scheduling: every process and every
\* thread that can take a step eventually takes one
Fairness ==
    \A p \in Pids :
        /\ WF_vars(MainReadPid(p) \/ MainSavePid(p) \/ SetHandler(p) \/ AllocMemory(p)
                   \/ Daemon(p) \/ ForkParent(p) \/ ForkChild(p) \/ ForkErr(p)
                   \/ SpawnWorker(p) \/ SpawnStatus(p) \/ Join(p) \/ FinalClear(p))
        /\ WF_vars(Worker(p))
        /\ WF_vars(StatusCheck(p) \/ StatusSample(p) \/ StatusSleep(p))
        /\ WF_vars(HandlerStore(p) \/ HandlerClear(p))

FairSpec == Spec /\ Fairness

\* ------------------------------------------------------------- properties
Loading(p) == proc[p].pc \in {"spawn", "join"}
RunningWorkers(p) ==
    IF Alive(p) THEN proc[p].handles - proc[p].returned - proc[p].panics ELSE 0
HasThreads(p) ==
    proc[p].handles > 0 \/ proc[p].status_thread # "none" \/ proc[p].ctrl_c # "none"
Children(p) == {q \in Pids : proc[q].pc # "none" /\ proc[q].parent = p}

\* the step of a start invocation that finds an entry
C1_ConflictStep ==
    \A p \in Pids :
        (/\ proc[p].pc = "read"
         /\ read_pid(pid_file) # None
         /\ proc'[p] # proc[p]
         /\ proc'[p].pc # "killed")
        => /\ proc'[p].pc = "done"
           /\ proc'[p].out = "conflict"
           /\ proc'[p].pid = read_pid(pid_file)
           /\ pid_file' = pid_file
           /\ next_pid' = next_pid

\* what holds of a process once it has reported a conflict
C1_ConflictState ==
    \A p \in Pids :
        proc[p].out = "conflict"
        => /\ proc[p].pc = "done"
           /\ ~HasThreads(p)
           /\ ~proc[p].os_handler
           /\ Children(p) = {}
           /\ proc[p].saved = "none"

\* C1: a start invocation that reads a parseable entry returns at once: it
\* prints the identifier it read, leaves the file as it is, creates no
\* process, installs no handler and spawns no worker and no status thread.
C1_SecondStartNoEffect == [][C1_ConflictStep]_vars /\ []C1_ConflictState

\* a second start has reported the identifier of a registered instance that
\* is running its workers
C1_Witness ==
    \E p, q \in Pids :
        /\ proc[p].out = "conflict"
        /\ proc[p].pid = q
        /\ RunningWorkers(q) > 0
        /\ read_pid(pid_file) = q

\* C2: a shutdown signal delivered to a process that runs load makes its
\* handler run: until the flag is false a handler run is outstanding.
C2_SignalRunsHandler ==
    \A p \in Pids :
        (proc[p].signalled /\ Alive(p) /\ Loading(p))
        => (~proc[p].running \/ proc[p].pending > 0)

\* C3: once the flag is false in a process that has reached the spawn step,
\* its workers and status thread return, the joins complete, and start_load
\* removes the PID file and returns.
C3_FlagFalseTerminates ==
    \A p \in Pids :
        (Loading(p) /\ ~proc[p].running)
        ~> (proc[p].pc = "done" /\ RunningWorkers(p) = 0
            /\ proc[p].returned = proc[p].handles
            /\ proc[p].status_thread = "done" /\ ~pid_file.exists)

\* a process has returned from start_load after its workers saw the flag false
C3_Witness ==
    \E p \in Pids :
        /\ proc[p].pc = "done"
        /\ proc[p].handles > 1
        /\ proc[p].returned = proc[p].handles
        /\ proc[p].status_thread = "done"
        /\ ~proc[p].running

\* the three steps of stop after it found an entry
C4_StopStep ==
    \A p \in Pids :
        /\ (proc[p].pc = "stop_read" /\ proc'[p].pc = "stop_kill")
           => (proc'[p].pid = read_pid(pid_file) /\ pid_file' = pid_file
               /\ \A q \in Pids \ {p} : proc'[q] = proc[q])
        /\ (proc[p].pc = "stop_kill" /\ proc'[p].pc # "stop_kill")
           => /\ proc'[p].pc = "stop_clear"
              /\ pid_file' = pid_file
              /\ \A q \in Pids \ {p, proc[p].pid} : proc'[q] = proc[q]
              /\ \A q \in Pids \ {p} :
                    (q = proc[p].pid /\ Alive(q))
                    => (proc'[q].pc = "killed" \/ proc'[q].signalled)
        /\ (proc[p].pc = "stop_clear" /\ proc'[p].pc # "stop_clear")
           => (proc'[p].pc = "done" /\ proc'[p].out = "stopped" /\ ~pid_file'.exists)

\* C4: stop, having read an entry, signals that identifier and no other
\* process, does not touch the file while doing so, and then removes the
\* file whatever became of the signal and of the target.
C4_StopFireAndForget == [][C4_StopStep]_vars

\* stop has finished and the file is gone while the process it signalled
\* still runs its workers
C4_Witness ==
    \E p, q \in Pids :
        /\ proc[p].out = "stopped"
        /\ proc[p].pc = "done"
        /\ proc[p].pid = q
        /\ RunningWorkers(q) > 0
        /\ ~pid_file.exists

\* the step of stop when read_pid gives None
C5_StopStep ==
    \A p \in Pids :
        (proc[p].pc = "stop_read" /\ read_pid(pid_file) = None /\ proc'[p] # proc[p])
        => /\ proc'[p].pc = "done"
           /\ proc'[p].out = "no_instance"
           /\ pid_file' = pid_file
           /\ \A q \in Pids \ {p} : proc'[q] = proc[q]

\* C5: stop that finds no entry reports it, signals nobody and leaves the
\* file exactly as it was.
C5_StopNoEntry ==
    [][C5_StopStep]_vars
    /\ [](\A p \in Pids : proc[p].out = "no_instance" => proc[p].pc = "done")

\* stop has reported "no instance" and an unusable file is still there
C5_Witness ==
    \E p \in Pids :
        /\ proc[p].out = "no_instance"
        /\ pid_file.exists
        /\ read_pid(pid_file) = None

\* the process hit one of the fatal start errors
FatalError(p) ==
    \/ proc[p].out = "conflict"
    \/ proc[p].pc = "panicked"
    \/ proc[p].pc = "fork_err"
    \/ proc[p].out = "fork_error"

\* C6: a process that hit a fatal start error (conflicting entry, handler
\* installation failure, fork failure) has no worker and no status thread.
C6_FatalBeforeWorkers ==
    \A p \in Pids :
        FatalError(p) => (proc[p].handles = 0 /\ proc[p].status_thread = "none")

\* a start has returned after a failed fork
C6_Witness ==
    \E p \in Pids :
        /\ proc[p].out = "fork_error"
        /\ proc[p].pc = "done"
        /\ proc[p].cores > 0

\* the steps at which save_pid or the --memory parse can fail
C7_Step ==
    \A p \in Pids :
        /\ (proc[p].pc = "save" /\ proc'[p].pc \notin {"save", "killed"})
           => /\ proc'[p].pc = "set_handler"
              /\ proc'[p].saved = "err" => read_pid(pid_file') # p
        /\ (proc[p].pc = "fork_child" /\ proc'[p].pc # "fork_child")
           => /\ proc'[p].pc = "spawn"
              /\ proc'[p].saved = "err" => read_pid(pid_file') # p
        /\ (proc[p].pc = "alloc" /\ proc'[p].pc # "alloc")
           => /\ proc'[p].pc \in {"daemon", "spawn"}
              /\ proc[p].memory = "bad" => ~proc'[p].memory_vec

\* what holds, after such a failure, once the workers are spawned
C7_State ==
    \A p \in Pids :
        (proc[p].pc = "join" /\ (proc[p].saved = "err" \/ proc[p].memory = "bad"))
        => /\ proc[p].handles = Min(proc[p].cores, num_cpus)
           /\ proc[p].status_thread # "none"
           /\ proc[p].saved = "err" => read_pid(pid_file) # p
           /\ proc[p].memory = "bad" => ~proc[p].memory_vec

\* C7: a failed save_pid and an unparseable --memory do not stop the start:
\* the next step is the one a success leads to, the failed save leaves no
\* entry of this process, the bad size leaves no reservation, and the
\* process spawns min(cores, num_cpus) workers all the same.
C7_NonFatalErrors == [][C7_Step]_vars /\ []C7_State

\* after a failed save_pid and a bad --memory the workers run, without an
\* entry of this process and without a reservation
C7_Witness ==
    \E p \in Pids :
        /\ proc[p].pc = "join"
        /\ proc[p].saved = "err"
        /\ proc[p].memory = "bad"
        /\ ~proc[p].memory_vec
        /\ RunningWorkers(p) = Min(proc[p].cores, num_cpus)
        /\ RunningWorkers(p) > 1
        /\ read_pid(pid_file) # p

\* the parent of a background start never has a worker or a status thread,
\* and leaves through exit(0) after the parent message
C8_ParentNeverSpawns ==
    \A p \in Pids :
        /\ proc[p].pc \in {"fork_parent", "exited"}
           => (proc[p].handles = 0 /\ proc[p].status_thread = "none")
        /\ proc[p].pc = "exited" => proc[p].out = "parent_exit"

\* the child has run its own save_pid before it spawns
C8_ChildSavesFirst ==
    \A c \in Pids :
        (proc[c].parent # None /\ (proc[c].handles > 0 \/ proc[c].status_thread # "none"))
        => proc[c].saved # "none"

\* while the child's workers run after a successful save, the file holds the
\* child's identifier
C8_RegistryHoldsChild ==
    \A c \in Pids :
        (proc[c].parent # None /\ RunningWorkers(c) > 0 /\ proc[c].saved = "ok")
        => read_pid(pid_file) = c

\* C8: in background mode the parent exits 0 without spawning, the child
\* saves its own identifier before it spawns, and while the child's workers
\* run after a successful save the file holds the child's identifier.
C8_Background ==
    C8_ParentNeverSpawns /\ C8_ChildSavesFirst /\ C8_RegistryHoldsChild

\* C9: with cores >= 1, a start that is past the spawn step has created
\* min(cores, num_cpus) workers, never more on the way, and all of them
\* run while the flag is true.
C9_WorkerCount ==
    \A p \in Pids :
        proc[p].cores >= 1
        => /\ proc[p].handles <= Min(proc[p].cores, num_cpus)
           /\ proc[p].pc \in {"join", "final_clear"}
              => proc[p].handles = Min(proc[p].cores, num_cpus)
           /\ (proc[p].pc = "join" /\ proc[p].running)
              => RunningWorkers(p) = Min(proc[p].cores, num_cpus)

\* more cores requested than present: one worker per logical core runs
C9_Witness ==
    \E p \in Pids :
        /\ proc[p].pc = "join"
        /\ proc[p].running
        /\ proc[p].cores > num_cpus
        /\ num_cpus > 1
        /\ RunningWorkers(p) = num_cpus

\* C10: a start that is past the spawn step uses a core count in
\* 1..num_cpus and has spawned at least one worker, whatever was requested.
C10_AtLeastOneWorker ==
    \A p \in Pids :
        proc[p].pc \in {"join", "final_clear"}
        => (proc[p].actual_cores \in 1..num_cpus /\ proc[p].handles >= 1)

\* C11: in each process the handler closure (the store of false and the
\* removal of the file) runs at most once, however many signals arrive.
C11_HandlerRunsOnce ==
    \A p \in Pids : proc[p].handled <= 1

\* the flag of p has been created (start_load was entered)
FlagExists(p) ==
    proc[p].cmd = "start" /\ proc[p].pc \notin {"none", "read", "save", "set_handler"}

\* the steps that create, copy, write and read the flag
C12_Step ==
    \A p \in Pids :
        /\ (proc[p].pc = "set_handler" /\ proc'[p].pc \notin {"set_handler", "killed"})
           => proc'[p].running
        /\ (proc[p].pc = "none" /\ proc'[p].pc = "fork_child")
           => proc'[p].running = proc[proc'[p].parent].running
        /\ (FlagExists(p) /\ ~proc[p].running) => ~proc'[p].running
        /\ (proc[p].status_thread = "check" /\ proc'[p].status_thread = "sample")
           => proc[p].running
        /\ proc'[p].returned > proc[p].returned => ~proc[p].running

\* C12: the flag is created true and is never written true afterwards: once
\* it is false it stays false, so after a false reading no thread reads true,
\* the status thread starts no further iteration and workers only return.
C12_FlagMonotone == [][C12_Step]_vars

\* after two handler runs the flag is still false and every thread of the
\* process has returned on reading it
C12_Witness ==
    \E p \in Pids :
        /\ Alive(p)
        /\ proc[p].handled = 2
        /\ ~proc[p].running
        /\ proc[p].handles > 0
        /\ proc[p].returned = proc[p].handles
        /\ proc[p].status_thread = "done"

\* a save_pid of p that succeeded is followed by a read_pid that gives p
C13_Step ==
    \A p \in Pids :
        (/\ proc[p].pc \in {"save", "fork_child"}
         /\ proc'[p].pc \notin {proc[p].pc, "killed"}
         /\ proc'[p].saved = "ok")
        => read_pid(pid_file') = p

\* what read_pid gives for the files that hold no identifier, and for the
\* files left by an earlier run
C13_ReadTable ==
    /\ ~pid_file.exists => read_pid(pid_file) = None
    /\ ~pid_file.readable => read_pid(pid_file) = None
    /\ (pid_file.exists /\ pid_file.readable)
       => /\ pid_file.content \in
               { <<>>, <<"1", "x">>, <<"-", "7">>,
                 <<"4", "2", "9", "4", "9", "6", "7", "2", "9", "6">> }
             => read_pid(pid_file) = None
          /\ pid_file.content \in { <<"7", "\n">>, <<"+", "7">> }
             => read_pid(pid_file) = 7
          /\ read_pid(pid_file) \in Pids
             => proc[read_pid(pid_file)].saved = "ok"

\* C13: save_pid by process p followed by read_pid, nothing in between,
\* gives exactly p; read_pid gives None for an absent, an unreadable and an
\* unparseable file.
C13_RoundTrip == [][C13_Step]_vars /\ []C13_ReadTable

\* a two-digit identifier has been written and reads back
C13_Witness ==
    \E p \in Pids :
        /\ p >= 10
        /\ proc[p].pc \in {"set_handler", "spawn"}
        /\ proc[p].saved = "ok"
        /\ read_pid(pid_file) = p

\* remove_pid_file applied once and twice to the file as it is now
C14_State ==
    LET once == remove_pid_file(pid_file)
        twice == remove_pid_file(once)
    IN  /\ ~pid_file.exists => once = pid_file
        /\ twice = once
        /\ ~once.exists /\ ~twice.exists

\* the steps of the program that call remove_pid_file
C14_Step ==
    \A p \in Pids :
        (\/ proc[p].pc = "final_clear" /\ proc'[p].pc = "done"
         \/ proc[p].pc = "fork_err" /\ proc'[p].pc = "done"
         \/ proc[p].pc = "stop_clear" /\ proc'[p].pc = "done"
         \/ proc[p].ctrl_c = "clear" /\ proc'[p].ctrl_c = "wait")
        => /\ ~pid_file'.exists
           /\ ~pid_file.exists => pid_file' = pid_file

Unrelated(p, q) == p # q /\ proc[p].parent # q /\ proc[q].parent # p

\* a handler clear or a final clear of p leaves alone the file that holds
\* the identifier of another instance q that is still generating load
C15_Step ==
    \A p, q \in Pids :
        (/\ Unrelated(p, q)
         /\ \/ proc[p].ctrl_c = "clear" /\ proc'[p].ctrl_c = "wait"
            \/ proc[p].pc = "final_clear" /\ proc'[p].pc = "done"
         /\ read_pid(pid_file) = q
         /\ proc[q].cmd = "start" /\ proc[q].saved = "ok"
         /\ Alive(q) /\ proc[q].running /\ proc'[q] = proc[q])
        => pid_file' = pid_file

\* C15: the handler clear and the final clear of one instance never remove
\* a file that records the identifier of a different, still-running
\* instance.
C15_OwnEntryOnly == [][C15_Step]_vars

\* C16: the memory is allocated only after the daemonization step: a
\* process that has not yet called fork::daemon, and the parent that
\* fork::daemon leaves behind, hold no allocation.
C16_AllocAfterDaemon ==
    \A p \in Pids :
        proc[p].pc \in {"daemon", "fork_parent", "exited"} => ~proc[p].memory_vec

\* nothing stands between the read and the write of a start invocation: a
\* read that finds no entry goes on to save_pid whatever other invocations
\* are doing, and a save_pid that succeeds replaces the entry of another
\* running instance, which keeps running
C17_Step ==
    \A p \in Pids :
        /\ (/\ proc[p].cmd = "start" /\ proc[p].pc = "read"
            /\ proc'[p].pc \notin {"read", "killed"}
            /\ read_pid(pid_file) = None)
           => proc'[p].pc = "save"
        /\ (/\ proc[p].pc = "save" /\ proc'[p].pc \notin {"save", "killed"}
            /\ proc'[p].saved = "ok")
           => /\ proc'[p].pc = "set_handler"
              /\ read_pid(pid_file') = p
              /\ \A q \in Pids \ {p} : proc'[q] = proc[q]

\* two start invocations that generate load at the same time
BothLoad(p, q) ==
    /\ Unrelated(p, q)
    /\ proc[p].cmd = "start" /\ proc[q].cmd = "start"
    /\ proc[p].parent = None /\ proc[q].parent = None
    /\ ~proc[p].background /\ ~proc[q].background
    /\ RunningWorkers(p) > 0 /\ RunningWorkers(q) > 0
    /\ proc[p].running /\ proc[q].running

\* C17: the check and the write of the PID file are not one atomic step:
\* two start invocations can both read no entry before either writes, both
\* go on to spawn workers, and the file then holds only the identifier of
\* the later writer while both generate load.
C17_CheckThenWrite == [][C17_Step]_vars

\* both invocations wrote the file, nothing has removed it (no signal, no
\* stop), so each read no entry before the other wrote; both run workers
\* and the file names one of them
C17_Witness ==
    \E p, q \in Pids :
        /\ BothLoad(p, q)
        /\ proc[p].saved = "ok" /\ proc[q].saved = "ok"
        /\ proc[p].pid = None /\ proc[q].pid = None
        /\ signals = 0
        /\ \A r \in Pids : proc[r].cmd # "stop"
        /\ read_pid(pid_file) = q

\* every thread start_load spawned has ended
AllThreadsEnded(p) ==
    /\ proc[p].returned + proc[p].panics = proc[p].handles
    /\ proc[p].status_thread = "done"

\* the end of start_load: the joins, then remove_pid_file
C18_Step ==
    \A p \in Pids :
        /\ (proc[p].pc = "join" /\ proc'[p].pc \notin {"join", "killed"})
           => (proc'[p].pc = "final_clear" /\ AllThreadsEnded(p))
        /\ (proc[p].pc = "final_clear" /\ proc'[p].pc \notin {"final_clear", "killed"})
           => (proc'[p].pc = "done" /\ ~pid_file'.exists)

\* start_load is past the joins only when every thread has ended, and it
\* never ends by a panic of its own there
C18_State ==
    \A p \in Pids :
        /\ (proc[p].pc = "final_clear" \/ (proc[p].pc = "done" /\ proc[p].handles > 0))
           => AllThreadsEnded(p)
        /\ proc[p].pc = "panicked" => proc[p].handles = 0

\* C18: the final remove_pid_file runs after every worker and the status
\* thread have been joined, and it runs also when workers ended by a panic:
\* the results of the joins are ignored.
C18_FinalClear == [][C18_Step]_vars /\ []C18_State

\* start_load returned and removed the file it wrote although one worker
\* panicked and another returned
C18_Witness ==
    \E p \in Pids :
        /\ proc[p].pc = "done"
        /\ proc[p].panics > 0 /\ proc[p].returned > 0
        /\ proc[p].saved = "ok"
        /\ ~pid_file.exists

\* C19: a process that wrote its identifier and has terminated (return from
\* start_load, exit of the parent after the fork, failed fork, failed
\* set_handler) no longer has its identifier in the PID file.
C19_NoStaleEntry ==
    \A p \in Pids :
        (proc[p].pc \in {"done", "exited", "panicked"} /\ proc[p].saved = "ok")
        => read_pid(pid_file) # p

\* the loop of the status thread: an iteration is entered only on a load
\* that gave true, and the sleep is followed by a new load
C20_Step ==
    \A p \in Pids :
        /\ proc'[p].status_thread = "sample" /\ proc[p].status_thread # "sample"
           => (proc[p].status_thread = "check" /\ proc[p].running)
        /\ (proc[p].status_thread = "sleep" /\ proc'[p].status_thread # "sleep")
           => proc'[p].status_thread = "check"
        /\ (/\ proc[p].status_thread = "check" /\ ~proc[p].running
            /\ proc'[p].status_thread # "check")
           => proc'[p].status_thread = "done"
        /\ proc[p].status_thread = "done" => proc'[p].status_thread = "done"

\* C20: the status thread samples and prints only in iterations it entered
\* on reading the flag as true, reads the flag again after every sleep, and
\* prints at most one more sample after the flag has become false before it
\* returns.
C20_StatusThread ==
    /\ [][C20_Step]_vars
    /\ [](\A p \in Pids : proc[p].late_samples <= 1)

\* the flag became false between the load and the sample: one sample was
\* printed with the flag false, and the thread returned at its next load
C20_Witness ==
    \E p \in Pids :
        /\ proc[p].late_samples = 1
        /\ proc[p].status_thread = "done"
        /\ ~proc[p].running

====
